---- MODULE Spec2Model ----
(***************************************************************************)
(* Door actuator controller of src/motor.cpp (KL25Z, mbed).                *)
(*                                                                         *)
(* Units: times are in milliseconds (CYCLE_TIME 0.5f s = 500,              *)
(* DOOR_RISE_TIME 10.0f s = 10000; every value the timers take is a        *)
(* multiple of 0.5 and therefore exact in float), voltages in millivolts,  *)
(* currents in milliamperes.  DigitalOut values are 0 / 1; the on-board    *)
(* LEDs are active low (0 = lit).                                          *)
(***************************************************************************)
EXTENDS Integers, Sequences, FiniteSets, TLC

\* ---- program constants (src/motor.cpp:36-47) ----
V_SUPPLY == 3300
MOTOR_SERIES_RESISTANCE == 10
MOTOR_CURRENT_LIMIT == 100
CYCLE_TIME == 500
DOOR_FALL_TIME == 10000
DOOR_RISE_TIME == 10000
RED == 0
GREEN == 1
BLUE == 2

\* ---- model bound: the normalised sample TorqueSensor.read() is k / MaxReading ----
MaxReading == 33

Readings == 0..MaxReading

VARIABLES
    timer_up_en, timer_down_en, timer_down_value, timer_up_value, door_is_up,
    OutputMotorUp, OutputMotorDown, RED_LED, GREEN_LED, BLUE_LED,
    motor_current,   \* value returned by the last get_motor_current()
    led_calls,       \* number of light_LED() calls made by the last step
    last,            \* the last step: "init", "detected", "relieved", "tick"
    prev,            \* the step before it
    started,         \* the motion the handlers started last: "none", "up", "down"
    overload_stop,   \* motion cut by an overload since that start: "none", "up", "down"
    ticks,           \* ticks that advanced a travel timer since that start
    pc               \* the main loop's next statement, by source line ("L191" = top of a cycle)

progvars == <<timer_up_en, timer_down_en, timer_down_value, timer_up_value, door_is_up,
              OutputMotorUp, OutputMotorDown, RED_LED, GREEN_LED, BLUE_LED>>

histvars == <<motor_current, led_calls, last, prev, started, overload_stop, ticks>>

vars == <<progvars, histvars, pc>>

\* The globals as one record; calls counts the light_LED() calls of the step.
State ==
    [timer_up_en |-> timer_up_en, timer_down_en |-> timer_down_en,
     timer_down_value |-> timer_down_value, timer_up_value |-> timer_up_value,
     door_is_up |-> door_is_up,
     OutputMotorUp |-> OutputMotorUp, OutputMotorDown |-> OutputMotorDown,
     RED_LED |-> RED_LED, GREEN_LED |-> GREEN_LED, BLUE_LED |-> BLUE_LED,
     calls |-> 0]

\* Write a record back to the globals.
Store(s) ==
    /\ timer_up_en' = s.timer_up_en
    /\ timer_down_en' = s.timer_down_en
    /\ timer_down_value' = s.timer_down_value
    /\ timer_up_value' = s.timer_up_value
    /\ door_is_up' = s.door_is_up
    /\ OutputMotorUp' = s.OutputMotorUp
    /\ OutputMotorDown' = s.OutputMotorDown
    /\ RED_LED' = s.RED_LED
    /\ GREEN_LED' = s.GREEN_LED
    /\ BLUE_LED' = s.BLUE_LED
    /\ led_calls' = s.calls

\* ---- light_LED: all three off, then the given one on ----
light_LED(s, LED) ==
    [s EXCEPT !.RED_LED = IF LED = RED THEN 0 ELSE 1,
              !.GREEN_LED = IF LED = GREEN THEN 0 ELSE 1,
              !.BLUE_LED = IF LED = BLUE THEN 0 ELSE 1,
              !.calls = @ + 1]

\* ---- iterate_and_check_timer ----
UpTimerDone_Late(v) == v < 0

\* line 79: the rise timer has run out
UpTimerDone(v) == v <= 0

DownTimerDone_Late(v) == v < 0

\* line 95: the fall timer has run out
DownTimerDone(v) == v <= 0

UpTimerExpiry_MotorLeftOn(s) ==
    [light_LED(s, RED) EXCEPT !.timer_up_en = FALSE,
                              !.timer_up_value = DOOR_RISE_TIME,
                              !.door_is_up = TRUE]

\* lines 79-87: stop the motor going up and reset the rise timer
UpTimerExpiry(s) ==
    [light_LED(s, RED) EXCEPT !.timer_up_en = FALSE,
                              !.timer_up_value = DOOR_RISE_TIME,
                              !.OutputMotorUp = 0,
                              !.door_is_up = TRUE]

DownTimerExpiry_WrongTarget(s) ==
    [light_LED(s, RED) EXCEPT !.timer_down_en = FALSE,
                              !.timer_down_value = DOOR_FALL_TIME,
                              !.OutputMotorDown = 0,
                              !.door_is_up = TRUE]

DownTimerExpiry_NoReset(s) ==
    [light_LED(s, RED) EXCEPT !.timer_down_en = FALSE,
                              !.OutputMotorDown = 0,
                              !.door_is_up = FALSE]

\* lines 95-103: stop the motor going down and reset the fall timer
DownTimerExpiry(s) ==
    [light_LED(s, RED) EXCEPT !.timer_down_en = FALSE,
                              !.timer_down_value = DOOR_FALL_TIME,
                              !.OutputMotorDown = 0,
                              !.door_is_up = FALSE]

iterate_and_check_timer(s) ==
    IF s.timer_up_en
    THEN LET s1 == [s EXCEPT !.timer_up_value = @ - CYCLE_TIME]
         IN  IF UpTimerDone(s1.timer_up_value) THEN UpTimerExpiry(s1) ELSE s1
    ELSE IF s.timer_down_en
    THEN LET s1 == [s EXCEPT !.timer_down_value = @ - CYCLE_TIME]
         IN  IF DownTimerDone(s1.timer_down_value) THEN DownTimerExpiry(s1) ELSE s1
    ELSE s

\* ---- pressure_detected ----
CanStartUp_NoDoorCheck(s) == ~s.timer_up_en

CanStartUp_NoTimerCheck(s) == ~s.door_is_up

\* line 139: the door is down and not already going up
CanStartUp(s) == ~s.door_is_up /\ ~s.timer_up_en

pressure_detected(s) ==
    IF CanStartUp(s)
    THEN light_LED([s EXCEPT !.OutputMotorUp = 1, !.timer_up_en = TRUE], GREEN)
    ELSE s

\* ---- pressure_relieved ----
CanStartDown_NoDoorCheck(s) == ~s.timer_down_en

CanStartDown_DoorNegated(s) == ~s.door_is_up /\ ~s.timer_down_en

\* line 158: the door is up and not already going down
CanStartDown(s) == s.door_is_up /\ ~s.timer_down_en

pressure_relieved(s) ==
    IF CanStartDown(s)
    THEN light_LED([s EXCEPT !.OutputMotorDown = 1, !.timer_down_en = TRUE], BLUE)
    ELSE s

\* ---- get_motor_current: supply voltage times the sample, over the resistance ----
get_motor_current(raw) ==
    ((V_SUPPLY * raw) \div MaxReading) \div MOTOR_SERIES_RESISTANCE

\* ---- check_torque_sensor ----
Overload_Strict(current) == current > MOTOR_CURRENT_LIMIT

\* line 191
Overload(current) == current >= MOTOR_CURRENT_LIMIT

check_torque_sensor_OnlyWhenDriving(s, current) ==
    IF Overload(current) /\ (s.OutputMotorUp = 1 \/ s.OutputMotorDown = 1)
    THEN light_LED([s EXCEPT !.OutputMotorUp = 0, !.OutputMotorDown = 0], RED)
    ELSE s

check_torque_sensor_NoLED(s, current) ==
    IF Overload(current)
    THEN [s EXCEPT !.OutputMotorUp = 0, !.OutputMotorDown = 0]
    ELSE s

check_torque_sensor(s, current) ==
    IF Overload(current)
    THEN light_LED([s EXCEPT !.OutputMotorUp = 0, !.OutputMotorDown = 0], RED)
    ELSE s

\* ---- the state after construction and main()'s prologue (lines 50-54, 205-217) ----
Init ==
    /\ timer_up_en = FALSE
    /\ timer_down_en = FALSE
    /\ timer_down_value = DOOR_FALL_TIME
    /\ timer_up_value = DOOR_RISE_TIME
    /\ door_is_up = FALSE
    /\ OutputMotorUp = 0
    /\ OutputMotorDown = 0
    /\ RED_LED = 1
    /\ GREEN_LED = 1
    /\ BLUE_LED = 1
    /\ motor_current = 0
    /\ led_calls = 0
    /\ last = "init"
    /\ prev = "init"
    /\ started = "none"
    /\ overload_stop = "none"
    /\ ticks = 0
    /\ pc = "L191"

\* History of a handler step that takes the globals from s to t.
HandlerHistory(s, t, name) ==
    LET up == t.timer_up_en /\ ~s.timer_up_en
        down == t.timer_down_en /\ ~s.timer_down_en
    IN  /\ last' = name
        /\ prev' = last
        /\ started' = IF up THEN "up" ELSE IF down THEN "down" ELSE started
        /\ overload_stop' = IF up \/ down THEN "none" ELSE overload_stop
        /\ ticks' = IF up \/ down THEN 0 ELSE ticks
        /\ UNCHANGED <<motor_current, pc>>

\* PressureButton0.fall(&pressure_detected): the falling-edge interrupt runs the handler
PressureButton0_fall ==
    LET s == State
        t == pressure_detected(s)
    IN  Store(t) /\ HandlerHistory(s, t, "detected")

\* PressureButton0.rise(&pressure_relieved): the rising-edge interrupt runs the handler
PressureButton0_rise ==
    LET s == State
        t == pressure_relieved(s)
    IN  Store(t) /\ HandlerHistory(s, t, "relieved")

\* One cycle of main()'s loop, run to completion, with sample raw on the sensor pin
main_loop(raw) ==
    LET s == State
        current == get_motor_current(raw)
        s1 == check_torque_sensor(s, current)
        s2 == iterate_and_check_timer(s1)
        cut == s1.OutputMotorUp # s.OutputMotorUp \/ s1.OutputMotorDown # s.OutputMotorDown
    IN  /\ Store(s2)
        /\ motor_current' = current
        /\ last' = "tick"
        /\ prev' = last
        /\ overload_stop' = IF cut /\ s.OutputMotorUp = 1 THEN "up"
                            ELSE IF cut /\ s.OutputMotorDown = 1 THEN "down"
                            ELSE overload_stop
        /\ ticks' = IF s.timer_up_en \/ s.timer_down_en THEN ticks + 1 ELSE ticks
        /\ UNCHANGED <<started, pc>>

Tick == \E raw \in Readings : main_loop(raw)

Next == PressureButton0_fall \/ PressureButton0_rise \/ Tick

Spec == Init /\ [][Next]_vars

\* Ticks a full rise / fall takes: ceil(duration / CYCLE_TIME)
RiseTicks == (DOOR_RISE_TIME + CYCLE_TIME - 1) \div CYCLE_TIME

FallTicks == (DOOR_FALL_TIME + CYCLE_TIME - 1) \div CYCLE_TIME

TypeOK ==
    /\ timer_up_en \in BOOLEAN /\ timer_down_en \in BOOLEAN /\ door_is_up \in BOOLEAN
    /\ timer_up_value \in Int /\ timer_down_value \in Int
    /\ OutputMotorUp \in {0, 1} /\ OutputMotorDown \in {0, 1}
    /\ RED_LED \in {0, 1} /\ GREEN_LED \in {0, 1} /\ BLUE_LED \in {0, 1}
    /\ motor_current \in Nat /\ led_calls \in 0..2 /\ ticks \in Nat
    /\ last \in {"init", "detected", "relieved", "tick"}
    /\ prev \in {"init", "detected", "relieved", "tick"}
    /\ started \in {"none", "up", "down"}
    /\ overload_stop \in {"none", "up", "down"}
    /\ pc \in {"L191", "L193", "L194", "L195", "L75", "L77", "L79", "L82", "L83", "L84",
              "L85", "L86", "L91", "L93", "L95", "L98", "L99", "L100", "L101", "L102"}

\* ------------------------------------------------------------------------
\* C1: in every state reachable by presence-detected events, presence-released
\* events and ticks, the drive-up and drive-down outputs are never both true.
C1_MotorOutputsExclusive == ~(OutputMotorUp = 1 /\ OutputMotorDown = 1)

\* the door was driven up, and a release now drives it down
C1_Witness ==
    last = "relieved" /\ started = "down" /\ ticks = 0
    /\ OutputMotorDown = 1 /\ OutputMotorUp = 0

\* C2: after every tick whose current reading is at or above the threshold
\* (equal included) both motor outputs are false, whatever the motion was.
C2_OverloadStopsOutputs ==
    (last = "tick" /\ motor_current >= MOTOR_CURRENT_LIMIT)
        => (OutputMotorUp = 0 /\ OutputMotorDown = 0)

\* the first tick of a rise read exactly the threshold and cut the drive
C2_Witness ==
    last = "tick" /\ motor_current = MOTOR_CURRENT_LIMIT
    /\ overload_stop = "up" /\ ticks = 1 /\ OutputMotorUp = 0

\* C3: at the end of any tick whose current reading is at or above the
\* threshold neither travel timer is active (motion is Idle).
C3_OverloadSetsIdle ==
    (last = "tick" /\ motor_current >= MOTOR_CURRENT_LIMIT)
        => (~timer_up_en /\ ~timer_down_en)

\* C4: once an overload has cut a travel, no tick changes position (neither
\* the overload tick nor a later one) until a presence event starts a motion.
C4_PositionKeptAfterOverload ==
    [][(last' = "tick" /\ overload_stop' # "none") => door_is_up' = door_is_up]_vars

\* C5: after an overload cut a rise from position Down, the next
\* presence-detected event drives up and arms the rise timer again; after an
\* overload cut a fall from position Up, the next presence-released event
\* drives down and arms the fall timer again.
C5_RestartAfterOverload ==
    [][/\ (last' = "detected" /\ overload_stop = "up" /\ ~door_is_up)
            => (OutputMotorUp' = 1 /\ timer_up_en')
       /\ (last' = "relieved" /\ overload_stop = "down" /\ door_is_up)
            => (OutputMotorDown' = 1 /\ timer_down_en')]_vars

\* C6: the up travel timer and the down travel timer are never both active.
C6_TimersExclusive == ~(timer_up_en /\ timer_down_en)

\* a presence-detected event arrived while the fall timer was running
C6_Witness == last = "detected" /\ timer_down_en /\ ~timer_up_en /\ ticks > 0

\* C7: the up timer is active only with position Down and the down timer only
\* with position Up; a presence event that would break this (detected with the
\* door Up, released with the door Down) changes no variable of the program.
C7_MotionMatchesPosition ==
    /\ [](timer_up_en => ~door_is_up)
    /\ [](timer_down_en => door_is_up)
    /\ [][/\ (last' = "detected" /\ door_is_up) => UNCHANGED progvars
          /\ (last' = "relieved" /\ ~door_is_up) => UNCHANGED progvars]_vars

\* a release arrived during a rise and was ignored
C7_Witness ==
    last = "relieved" /\ timer_up_en /\ ~door_is_up /\ started = "up"
    /\ OutputMotorUp = 1 /\ OutputMotorDown = 0

\* C8: a presence-detected event directly after another one changes nothing,
\* and one arriving while the rise timer is active leaves the rise timer value,
\* the motor outputs and position as they were.
C8_DetectedIdempotent ==
    [][/\ (last' = "detected" /\ last = "detected") => UNCHANGED progvars
       /\ (last' = "detected" /\ timer_up_en) =>
              UNCHANGED <<timer_up_value, timer_up_en, OutputMotorUp,
                          OutputMotorDown, door_is_up>>]_vars

\* two presence-detected events in a row in the middle of a rise
C8_Witness ==
    last = "detected" /\ prev = "detected" /\ timer_up_en
    /\ OutputMotorUp = 1 /\ ticks > 0 /\ timer_up_value < DOOR_RISE_TIME

\* C9: both timer values are never negative, and a travel timer that is
\* inactive holds its full configured duration.
C9_TimersNonNegativeAndReset ==
    /\ timer_up_value >= 0
    /\ timer_down_value >= 0
    /\ (~timer_up_en => timer_up_value = DOOR_RISE_TIME)
    /\ (~timer_down_en => timer_down_value = DOOR_FALL_TIME)

\* the fall timer ran out and was reset
C9_Witness ==
    last = "tick" /\ started = "down" /\ ticks = FallTicks
    /\ ~timer_down_en /\ timer_down_value = DOOR_FALL_TIME /\ ~door_is_up

\* C10: a rise started from Down and Idle and not cut by an overload keeps
\* drive-up true and position Down on every tick before tick number
\* ceil(rise / dt), and at that tick is Idle with position Up and drive-up false.
C10_RiseEndsOnTick ==
    (started = "up" /\ overload_stop = "none") =>
        IF ticks < RiseTicks
        THEN OutputMotorUp = 1 /\ timer_up_en /\ ~door_is_up
        ELSE ticks = RiseTicks /\ OutputMotorUp = 0 /\ ~timer_up_en /\ door_is_up

\* the 20th tick of an undisturbed rise has just ended it
C10_Witness ==
    last = "tick" /\ started = "up" /\ overload_stop = "none" /\ ticks = RiseTicks
    /\ RiseTicks = 20 /\ door_is_up /\ OutputMotorUp = 0 /\ RED_LED = 0

\* ------------------------------------------------------------------------
\* What a step does to the motion, read off the timer-enable flags.
StartsMotion ==
    (~timer_up_en /\ timer_up_en') \/ (~timer_down_en /\ timer_down_en')

TimerExpires ==
    (timer_up_en /\ ~timer_up_en') \/ (timer_down_en /\ ~timer_down_en')

\* a tick that takes a motor output from true to false
TickStopsMotor ==
    last' = "tick" /\ (OutputMotorUp' < OutputMotorUp \/ OutputMotorDown' < OutputMotorDown)

\* C11: no step takes motion from MovingUp (up timer active) straight to
\* MovingDown (down timer active) or back, and a presence-released event
\* during MovingUp or a presence-detected event during MovingDown changes no
\* variable of the program.
C11_NoDirectReversal ==
    [][/\ timer_up_en => ~timer_down_en'
       /\ timer_down_en => ~timer_up_en'
       /\ (last' = "relieved" /\ timer_up_en) => UNCHANGED progvars
       /\ (last' = "detected" /\ timer_down_en) => UNCHANGED progvars]_vars

\* a presence-detected event right after a tick in the middle of a fall
C11_Witness ==
    last = "detected" /\ prev = "tick" /\ timer_down_en /\ door_is_up
    /\ OutputMotorDown = 1 /\ timer_down_value < DOOR_FALL_TIME

\* C12 (as claimed): a step calls the indicator driver once if it changes the
\* motion or is a tick that stops a motor output, and not at all otherwise.
C12_IndicatorOncePerTransition ==
    [][led_calls' = IF StartsMotion \/ TimerExpires \/ TickStopsMotor THEN 1 ELSE 0]_vars

\* C12 (amended): a presence handler calls the indicator driver once if it
\* starts a motion and not at all otherwise; a tick calls it once if the
\* current reading is at or above the threshold, plus once if a travel timer
\* expires in it (so at most twice).
C12_IndicatorCalls ==
    [][led_calls' =
          IF last' = "tick"
          THEN (IF motor_current' >= MOTOR_CURRENT_LIMIT THEN 1 ELSE 0)
               + (IF TimerExpires THEN 1 ELSE 0)
          ELSE (IF StartsMotion THEN 1 ELSE 0)]_vars

\* an overload tick with the door idle since start-up called the indicator
C12_Witness ==
    last = "tick" /\ started = "none" /\ motor_current >= MOTOR_CURRENT_LIMIT
    /\ led_calls = 1 /\ RED_LED = 0

\* C13: position changes only in a tick in which a travel timer expires, and
\* an expiring rise timer leaves it Up, an expiring fall timer Down.
C13_PositionOnlyOnExpiry ==
    [][/\ door_is_up' # door_is_up => (last' = "tick" /\ TimerExpires)
       /\ (timer_up_en /\ ~timer_up_en') => door_is_up'
       /\ (timer_down_en /\ ~timer_down_en') => ~door_is_up']_vars

\* the rise timer expired in a tick that also read an overload: position is Up
C13_Witness ==
    last = "tick" /\ led_calls = 2 /\ started = "up" /\ ticks = RiseTicks
    /\ door_is_up /\ ~timer_up_en

\* ------------------------------------------------------------------------
\* The main loop never stops cycling (while(true) with wait(CYCLE_TIME)).
FairSpec == Spec /\ WF_vars(Tick)

MotionActive ==
    OutputMotorUp = 1 \/ OutputMotorDown = 1 \/ timer_up_en \/ timer_down_en

\* C14: with ticks scheduled fairly every started motion ends: a state with a
\* motor output true or a travel timer active leads to one with both outputs
\* false and no timer active, and a motion is never still active after
\* ceil(duration / dt) ticks since its start.
C14_MotionEnds ==
    /\ [](timer_up_en => ticks < RiseTicks)
    /\ [](timer_down_en => ticks < FallTicks)
    /\ [](OutputMotorUp = 1 => timer_up_en)
    /\ [](OutputMotorDown = 1 => timer_down_en)
    /\ (MotionActive ~> ~MotionActive)

\* a fall has one tick left to run
C14_Witness ==
    last = "tick" /\ started = "down" /\ timer_down_en /\ OutputMotorDown = 1
    /\ ticks = FallTicks - 1 /\ timer_down_value = CYCLE_TIME

\* C16: at every handler and tick boundary drive-up true implies the up timer
\* is active and drive-down true implies the down timer is active.
C16_DrivenOnlyWithTimer ==
    /\ (OutputMotorUp = 1) => (timer_up_en /\ timer_up_value > 0)
    /\ (OutputMotorDown = 1) => (timer_down_en /\ timer_down_value > 0)

\* the last tick before the rise timer runs out: still driving, timer armed
C16_Witness ==
    last = "tick" /\ OutputMotorUp = 1 /\ timer_up_en
    /\ ticks = RiseTicks - 1 /\ timer_up_value = CYCLE_TIME

Stmt(from, to, t) ==
    /\ pc = from
    /\ pc' = to
    /\ Store(t)
    /\ UNCHANGED <<motor_current, last, prev, started, overload_stop, ticks>>

\* line 191: read the current and test it against the limit
L191(raw) ==
    LET current == get_motor_current(raw)
    IN  /\ pc = "L191"
        /\ pc' = IF Overload(current) THEN "L193" ELSE "L75"
        /\ motor_current' = current
        /\ Store(State)
        /\ UNCHANGED <<last, prev, started, overload_stop, ticks>>

L193 == Stmt("L193", "L194", [State EXCEPT !.OutputMotorUp = 0])

L194 == Stmt("L194", "L195", [State EXCEPT !.OutputMotorDown = 0])

L195 == Stmt("L195", "L75", light_LED(State, RED))

L75 == Stmt("L75", IF timer_up_en THEN "L77" ELSE "L91", State)

L77 == Stmt("L77", "L79", [State EXCEPT !.timer_up_value = @ - CYCLE_TIME])

L79 == Stmt("L79", IF UpTimerDone(timer_up_value) THEN "L82" ELSE "L191", State)

L82 == Stmt("L82", "L83", light_LED(State, RED))

L83 == Stmt("L83", "L84", [State EXCEPT !.timer_up_en = FALSE])

L84 == Stmt("L84", "L85", [State EXCEPT !.timer_up_value = DOOR_RISE_TIME])

L85 == Stmt("L85", "L86", [State EXCEPT !.OutputMotorUp = 0])

L86 == Stmt("L86", "L191", [State EXCEPT !.door_is_up = TRUE])

L91 == Stmt("L91", IF timer_down_en THEN "L93" ELSE "L191", State)

L93 == Stmt("L93", "L95", [State EXCEPT !.timer_down_value = @ - CYCLE_TIME])

L95 == Stmt("L95", IF DownTimerDone(timer_down_value) THEN "L98" ELSE "L191", State)

L98 == Stmt("L98", "L99", light_LED(State, RED))

L99 == Stmt("L99", "L100", [State EXCEPT !.timer_down_en = FALSE])

L100 == Stmt("L100", "L101", [State EXCEPT !.timer_down_value = DOOR_FALL_TIME])

L101 == Stmt("L101", "L102", [State EXCEPT !.OutputMotorDown = 0])

L102 == Stmt("L102", "L191", [State EXCEPT !.door_is_up = FALSE])

\* The samples the statement-level loop reads: every tenth level, which lie on
\* both sides of the current limit.
PreemptReadings == {raw \in Readings : raw % 10 = 0}

NextPreempt ==
    \/ PressureButton0_fall
    \/ PressureButton0_rise
    \/ \E raw \in PreemptReadings : L191(raw)
    \/ L193 \/ L194 \/ L195
    \/ L75 \/ L77 \/ L79 \/ L82 \/ L83 \/ L84 \/ L85 \/ L86
    \/ L91 \/ L93 \/ L95 \/ L98 \/ L99 \/ L100 \/ L101 \/ L102

SpecPreempt == Init /\ [][NextPreempt]_vars

\* C15: also when an interrupt handler may run between any two statements of
\* the main loop, drive-up and drive-down are never both true.
C15_ExclusiveUnderPreemption == (OutputMotorUp = 1) => (OutputMotorDown = 0)
====
